---- MODULE Spec2Model ----
(***************************************************************************)
(* Model of TikTokApi/api/search.py: the async generator                   *)
(* Search.search_type and its facades users, general, keyword_suggestion.  *)
(*                                                                         *)
(* A session is one generator object.  It is suspended either before its   *)
(* body has started ("created"), at `await make_request` ("await", one     *)
(* transport call outstanding) or at a `yield` ("yield"); it has ended by  *)
(* `return` or by falling off the loop ("done"), by an exception that      *)
(* escaped ("failed") or by being closed at a suspension point ("closed"). *)
(* A step of the model is one synchronous run of the generator from one    *)
(* suspension point to the next.                                           *)
(*                                                                         *)
(* Encoding of Python values.  A dict is a function whose DOMAIN is the    *)
(* set of keys present.  A value that may be None is [val |-> v] or None.  *)
(***************************************************************************)
EXTENDS Integers, Sequences, FiniteSets, TLC

VARIABLES pc, entry, obj_type, count, arg_cursor, cursor, found, resp, it,
          result, requests, responses, yielded, inflight, log

vars == <<pc, entry, obj_type, count, arg_cursor, cursor, found, resp, it,
          result, requests, responses, yielded, inflight, log>>

(***************************************************************************)
(* Bounds of the model.                                                    *)
(***************************************************************************)
\* largest count argument tried by Init
MaxCount == 2
\* largest number of records in one page's list
MaxPage == 2
\* cap on the transport calls of one session (the loop itself has none)
MaxCalls == 2

\* the two generator objects of the model; Spec runs the first one only
Sessions == {1, 2}

(***************************************************************************)
(* Python values.                                                          *)
(***************************************************************************)
None == [none |-> TRUE]

Some(v) == [val |-> v]

\* dict.get(key): the value, or None when the key is absent
Get(d, key) == IF key \in DOMAIN d THEN Some(d[key]) ELSE None

\* dict.get(key, default)
GetDefault(d, key, default) == IF key \in DOMAIN d THEN d[key] ELSE default

EmptyDict == << >>

(***************************************************************************)
(* Upstream data: raw records and pages.                                   *)
(***************************************************************************)
\* a user record with all three identifiers
RecFull == [user_info |-> [sec_uid |-> "s1", user_id |-> "u1", unique_id |-> "n1"]]

\* a record without user_info
RecNoUserInfo == EmptyDict

\* the records a page's list is made of
RawRecords == {RecFull, RecNoUserInfo}

RECURSIVE SeqsUpTo(_, _)
SeqsUpTo(S, n) ==
    IF n = 0 THEN {<< >>}
    ELSE LET shorter == SeqsUpTo(S, n - 1)
         IN  shorter \cup {Append(q, x) : q \in {r \in shorter : Len(r) = n - 1}, x \in S}

RecordLists == SeqsUpTo(RawRecords, MaxPage)

ListFields == {"user_list", "video_list", "suggestion_list"}

\* cursor values an upstream page may report
PageCursors == {0, 1}

\* the part of a page made of has_more and cursor, either of them optional
Tails ==
    {EmptyDict}
    \cup {[k \in {"has_more"} |-> h] : h \in BOOLEAN}
    \cup {[k \in {"cursor"} |-> c] : c \in PageCursors}
    \cup {[has_more |-> h, cursor |-> c] : h \in BOOLEAN, c \in PageCursors}

\* a dict with one more key
With(d, key, v) == [k \in DOMAIN d \cup {key} |-> IF k = key THEN v ELSE d[k]]

\* the list field a kind of search reads (lines 157, 167, 174)
ListField(t) ==
    CASE t = "user/full" -> "user_list"
      [] t = "general/full" -> "video_list"
      [] t = "general/preview" -> "suggestion_list"
      [] OTHER -> "user_list"

\* a list field other than the one the kind reads
ForeignField(t) == IF ListField(t) = "user_list" THEN "video_list" ELSE "user_list"

\* the pages the upstream may answer a request of kind t with: no list
\* field at all, the list of the kind, or only a list of another kind
Pages(t) ==
    Tails
    \cup {With(tl, ListField(t), l) : tl \in Tails, l \in RecordLists}
    \cup {With(tl, ForeignField(t), <<RecFull>>) : tl \in Tails}

\* what `await make_request(...)` may produce
TransportResults(t) ==
    {[kind |-> "raise"], [kind |-> "none"]}
    \cup {[kind |-> "page", page |-> p] : p \in Pages(t)}

(***************************************************************************)
(* Arguments of a call.                                                    *)
(***************************************************************************)
Entries == {"users", "general", "keyword_suggestion", "search_type"}

\* obj_type bound by each facade; search_type takes any string: the model
\* calls it with a kind it decodes and with "user", the one of its docstring
ObjTypes(e) ==
    CASE e = "users" -> {"user/full"}
      [] e = "general" -> {"general/full"}
      [] e = "keyword_suggestion" -> {"general/preview"}
      [] e = "search_type" -> {"general/full", "user"}

Counts == 0..MaxCount

InitCursors == {Some(0), Some(1)}

\* the threshold of the advisory of general()
WarnCap == 9

(***************************************************************************)
(* The generator, as operators on the record st of one session's state.    *)
(* Each operator runs the code from one place up to the next suspension    *)
(* point or to the end of the generator.                                   *)
(***************************************************************************)
\* `return`, or the loop guard failing: the sequence ends
Return(st) == [st EXCEPT !.pc = "done", !.result = "StopAsyncIteration"]

\* an exception escapes the generator
Raise(st, exc) == [st EXCEPT !.pc = "failed", !.result = exc]

\* Yield, but fetching ahead: the request for the next page is issued
\* while the item is handed over
YieldPrefetch(st, item) ==
    [st EXCEPT !.pc = "yield", !.result = "item",
               !.yielded = Append(st.yielded, item),
               !.requests = Append(st.requests,
                                   [url |-> st.obj_type, cursor |-> st.cursor]),
               !.inflight = st.inflight \cup {Len(st.requests) + 1}]

\* `yield item`: the item goes to the consumer, the generator is suspended
Yield(st, item) ==
    [st EXCEPT !.pc = "yield", !.result = "item",
               !.yielded = Append(st.yielded, item)]

\* lines 136-148: build params with the current cursor and await the
\* transport delegate
Issue(st) ==
    [st EXCEPT !.pc = "await", !.result = "pending",
               !.requests = Append(st.requests,
                                   [url |-> st.obj_type, cursor |-> st.cursor]),
               !.inflight = st.inflight \cup {Len(st.requests) + 1}]

\* LoopGuard with the comparison off by one: while found <= count
LoopGuardLe(st) == IF st.found <= st.count THEN Issue(st) ELSE Return(st)

\* LoopGuard stopping one item early: while found + 1 < count
LoopGuardEarly(st) == IF st.found + 1 < st.count THEN Issue(st) ELSE Return(st)

\* line 135: while found < count
LoopGuard(st) == IF st.found < st.count THEN Issue(st) ELSE Return(st)

\* CheckMore computing the cursor itself, by a fixed step
CheckMoreStep(st) ==
    IF ~GetDefault(st.resp, "has_more", FALSE)
    THEN Return(st)
    ELSE LoopGuard([st EXCEPT !.cursor =
                        IF st.cursor = None THEN None ELSE Some(st.cursor.val + 1)])

\* CheckMore without the has_more test
CheckMoreIgnore(st) == LoopGuard([st EXCEPT !.cursor = Get(st.resp, "cursor")])

\* CheckMore going on without the loop guard: has_more alone decides
CheckMoreNoGuard(st) ==
    IF ~GetDefault(st.resp, "has_more", FALSE)
    THEN Return(st)
    ELSE Issue([st EXCEPT !.cursor = Get(st.resp, "cursor")])

\* lines 180-183: stop unless has_more is true, else take the page's cursor
CheckMore(st) ==
    IF ~GetDefault(st.resp, "has_more", FALSE)
    THEN Return(st)
    ELSE LoopGuard([st EXCEPT !.cursor = Get(st.resp, "cursor")])

\* lines 158-163: the User built from a record that has user_info
UserItem(rec) ==
    [type |-> "User",
     sec_uid |-> Get(rec["user_info"], "sec_uid"),
     user_id |-> Get(rec["user_info"], "user_id"),
     username |-> Get(rec["user_info"], "unique_id")]

\* lines 168-170: video() is called without arguments
VideoItem == [type |-> "Video"]

\* lines 175-177
KeywordItem(rec) == [type |-> "KeywordSuggestion", keyword |-> rec]

\* the list the for loop of the kind iterates (lines 157, 167, 174); a
\* kind that matches none of the three ifs iterates nothing
PageList(st) ==
    IF st.obj_type \in {"user/full", "general/full", "general/preview"}
    THEN GetDefault(st.resp, ListField(st.obj_type), << >>)
    ELSE << >>

\* Decode that stops emitting once found has reached count
DecodeTruncate(st) ==
    IF st.it < Len(PageList(st)) /\ st.found < st.count
    THEN LET rec == PageList(st)[st.it + 1]
             nx == [st EXCEPT !.it = st.it + 1]
         IN  CASE st.obj_type = "user/full" ->
                    IF "user_info" \in DOMAIN rec
                    THEN Yield(nx, UserItem(rec))
                    ELSE Raise(nx, "AttributeError")
               [] st.obj_type = "general/full" -> Yield(nx, VideoItem)
               [] OTHER -> Yield(nx, KeywordItem(rec))
    ELSE CheckMore(st)

\* lines 156-178: the for loop of the kind, from its iterator position it
Decode(st) ==
    IF st.it < Len(PageList(st))
    THEN LET rec == PageList(st)[st.it + 1]
             nx == [st EXCEPT !.it = st.it + 1]
         IN  CASE st.obj_type = "user/full" ->
                    IF "user_info" \in DOMAIN rec
                    THEN Yield(nx, UserItem(rec))
                    ELSE Raise(nx, "AttributeError")
               [] st.obj_type = "general/full" -> Yield(nx, VideoItem)
               [] OTHER -> Yield(nx, KeywordItem(rec))
    ELSE CheckMore(st)

\* Resume with the has_more test inside the for loop: the rest of the
\* page is dropped
ResumeSkipRest(st) == CheckMore([st EXCEPT !.found = st.found + 1])

\* Resume without the increment of found
ResumeNoCount(st) == Decode(st)

\* lines 164, 171, 178: the generator is resumed after a yield
Resume(st) == Decode([st EXCEPT !.found = st.found + 1])

\* Advise with the threshold off by one: count >= 9
AdviseGe(st) ==
    IF st.entry = "general" /\ st.count >= WarnCap
    THEN [st EXCEPT !.log = st.log + 1]
    ELSE st

\* lines 69-72: the advisory of general()
Advise(st) ==
    IF st.entry = "general" /\ st.count > WarnCap
    THEN [st EXCEPT !.log = st.log + 1]
    ELSE st

\* the first pull starts the body: the facade's, then line 134
Start(st) == LoopGuard([Advise(st) EXCEPT !.found = 0])

\* Receive without the None test: a null result is read as an empty page
ReceiveNoneAsEmpty(st, r) ==
    LET got == [st EXCEPT !.inflight = st.inflight \ {Len(st.requests)},
                          !.responses = Append(st.responses, r)]
    IN  CASE r.kind = "raise" -> Raise(got, "TransportError")
          [] r.kind = "none" -> Decode([got EXCEPT !.resp = EmptyDict, !.it = 0])
          [] OTHER -> Decode([got EXCEPT !.resp = r.page, !.it = 0])

\* Receive retrying the request when the transport raises
ReceiveRetry(st, r) ==
    LET got == [st EXCEPT !.inflight = st.inflight \ {Len(st.requests)},
                          !.responses = Append(st.responses, r)]
    IN  CASE r.kind = "raise" -> Issue(got)
          [] r.kind = "none" -> Raise(got, "InvalidResponseException")
          [] OTHER -> Decode([got EXCEPT !.resp = r.page, !.it = 0])

\* lines 143-154: the transport call returns r
Receive(st, r) ==
    LET got == [st EXCEPT !.inflight = st.inflight \ {Len(st.requests)},
                          !.responses = Append(st.responses, r)]
    IN  CASE r.kind = "raise" -> Raise(got, "TransportError")
          [] r.kind = "none" -> Raise(got, "InvalidResponseException")
          [] OTHER -> Decode([got EXCEPT !.resp = r.page, !.it = 0])

(***************************************************************************)
(* State of the sessions.                                                  *)
(***************************************************************************)
\* the state of session s as one record
S(s) ==
    [pc |-> pc[s], entry |-> entry[s], obj_type |-> obj_type[s],
     count |-> count[s], arg_cursor |-> arg_cursor[s],
     cursor |-> cursor[s], found |-> found[s],
     resp |-> resp[s], it |-> it[s], result |-> result[s],
     requests |-> requests[s], responses |-> responses[s],
     yielded |-> yielded[s], inflight |-> inflight[s], log |-> log[s]]

\* Commit with the cursor kept in one place for all sessions, as an
\* attribute of the class would be
CommitSharedCursor(s, st) ==
    /\ pc' = [pc EXCEPT ![s] = st.pc]
    /\ entry' = [entry EXCEPT ![s] = st.entry]
    /\ obj_type' = [obj_type EXCEPT ![s] = st.obj_type]
    /\ count' = [count EXCEPT ![s] = st.count]
    /\ arg_cursor' = [arg_cursor EXCEPT ![s] = st.arg_cursor]
    /\ cursor' = [t \in Sessions |-> st.cursor]
    /\ found' = [found EXCEPT ![s] = st.found]
    /\ resp' = [resp EXCEPT ![s] = st.resp]
    /\ it' = [it EXCEPT ![s] = st.it]
    /\ result' = [result EXCEPT ![s] = st.result]
    /\ requests' = [requests EXCEPT ![s] = st.requests]
    /\ responses' = [responses EXCEPT ![s] = st.responses]
    /\ yielded' = [yielded EXCEPT ![s] = st.yielded]
    /\ inflight' = [inflight EXCEPT ![s] = st.inflight]
    /\ log' = [log EXCEPT ![s] = st.log]

\* session s takes the state st
Commit(s, st) ==
    /\ pc' = [pc EXCEPT ![s] = st.pc]
    /\ entry' = [entry EXCEPT ![s] = st.entry]
    /\ obj_type' = [obj_type EXCEPT ![s] = st.obj_type]
    /\ count' = [count EXCEPT ![s] = st.count]
    /\ arg_cursor' = [arg_cursor EXCEPT ![s] = st.arg_cursor]
    /\ cursor' = [cursor EXCEPT ![s] = st.cursor]
    /\ found' = [found EXCEPT ![s] = st.found]
    /\ resp' = [resp EXCEPT ![s] = st.resp]
    /\ it' = [it EXCEPT ![s] = st.it]
    /\ result' = [result EXCEPT ![s] = st.result]
    /\ requests' = [requests EXCEPT ![s] = st.requests]
    /\ responses' = [responses EXCEPT ![s] = st.responses]
    /\ yielded' = [yielded EXCEPT ![s] = st.yielded]
    /\ inflight' = [inflight EXCEPT ![s] = st.inflight]
    /\ log' = [log EXCEPT ![s] = st.log]

\* a generator object just made by a call: nothing of its body has run
Created(e, t, n, c) ==
    [pc |-> "created", entry |-> e, obj_type |-> t, count |-> n,
     arg_cursor |-> c, cursor |-> c,
     found |-> 0, resp |-> EmptyDict, it |-> 0, result |-> "none",
     requests |-> << >>, responses |-> << >>, yielded |-> << >>,
     inflight |-> {}, log |-> 0]

\* a session of the model that no call has made
Unused == [Created("search_type", "user", 0, Some(0)) EXCEPT !.pc = "unused"]

\* the sessions take the states in the function f
InitAs(f) ==
    /\ pc = [s \in Sessions |-> f[s].pc]
    /\ entry = [s \in Sessions |-> f[s].entry]
    /\ obj_type = [s \in Sessions |-> f[s].obj_type]
    /\ count = [s \in Sessions |-> f[s].count]
    /\ arg_cursor = [s \in Sessions |-> f[s].arg_cursor]
    /\ cursor = [s \in Sessions |-> f[s].cursor]
    /\ found = [s \in Sessions |-> f[s].found]
    /\ resp = [s \in Sessions |-> f[s].resp]
    /\ it = [s \in Sessions |-> f[s].it]
    /\ result = [s \in Sessions |-> f[s].result]
    /\ requests = [s \in Sessions |-> f[s].requests]
    /\ responses = [s \in Sessions |-> f[s].responses]
    /\ yielded = [s \in Sessions |-> f[s].yielded]
    /\ inflight = [s \in Sessions |-> f[s].inflight]
    /\ log = [s \in Sessions |-> f[s].log]

\* the calls a caller may make
Calls ==
    {Created(e, t, n, c) : e \in Entries, t \in {"user/full", "general/full", "general/preview", "user"},
                           n \in Counts, c \in InitCursors}

\* one call has been made, with any entry point and arguments
Init ==
    \E g \in {c \in Calls : c.obj_type \in ObjTypes(c.entry)} :
        InitAs([s \in Sessions |-> IF s = 1 THEN g ELSE Unused])

(***************************************************************************)
(* Actions.                                                                *)
(***************************************************************************)
\* the consumer asks a suspended generator for its next item
Pull(s) ==
    /\ pc[s] \in {"created", "yield"}
    /\ LET st == IF pc[s] = "created" THEN Start(S(s)) ELSE Resume(S(s))
       IN  /\ Len(st.requests) <= MaxCalls
           /\ Commit(s, st)

\* the outstanding transport call of the session returns or raises
Response(s) ==
    /\ pc[s] = "await"
    /\ \E r \in TransportResults(obj_type[s]) :
         LET st == Receive(S(s), r)
         IN  /\ Len(st.requests) <= MaxCalls
             /\ Commit(s, st)

\* PullEnded on a generator that does not latch its end: the body starts
\* again
PullEndedRestart(s) ==
    /\ pc[s] \in {"done", "failed", "closed"}
    /\ LET st == Start(S(s))
       IN  /\ Len(st.requests) <= MaxCalls
           /\ Commit(s, st)

\* the consumer asks a generator that has ended for its next item
PullEnded(s) ==
    /\ pc[s] \in {"done", "failed", "closed"}
    /\ Commit(s, [S(s) EXCEPT !.result = "StopAsyncIteration"])

\* the consumer abandons the generator: it is closed where it is suspended
Close(s) ==
    /\ pc[s] \in {"created", "yield"}
    /\ Commit(s, [S(s) EXCEPT !.pc = "closed", !.result = "none"])

Next ==
    \/ Pull(1)
    \/ Response(1)
    \/ PullEnded(1)
    \/ Close(1)

Spec == Init /\ [][Next]_vars

(***************************************************************************)
(* Records and items of the pages received.                                *)
(***************************************************************************)
\* the list of the kind t in a page (lines 157, 167, 174)
KindList(t, page) == PageList([obj_type |-> t, resp |-> page])

\* the item the decoder of kind t makes of a record (lines 158-177); a user
\* record without user_info makes none, line 158 raises
ItemOf(t, rec) ==
    CASE t = "user/full" ->
           IF "user_info" \in DOMAIN rec
           THEN UserItem(rec)
           ELSE [type |-> "AttributeError"]
      [] t = "general/full" -> VideoItem
      [] OTHER -> KeywordItem(rec)

\* the items of all the pages among the transport results rs, in order
RECURSIVE AllItems(_, _)
AllItems(t, rs) ==
    IF rs = << >> THEN << >>
    ELSE LET l == IF Head(rs).kind = "page" THEN KindList(t, Head(rs).page) ELSE << >>
         IN  [i \in 1..Len(l) |-> ItemOf(t, l[i])] \o AllItems(t, Tail(rs))

\* the number of records of kind t in the pages among rs
RECURSIVE TotalSize(_, _)
TotalSize(t, rs) ==
    IF rs = << >> THEN 0
    ELSE (IF Head(rs).kind = "page" THEN Len(KindList(t, Head(rs).page)) ELSE 0)
         + TotalSize(t, Tail(rs))

\* the transport results of session s but the last
Earlier(s) == SubSeq(responses[s], 1, Len(responses[s]) - 1)

(***************************************************************************)
(* A well-formed upstream: every page has the list of the kind, made of    *)
(* full records, and either announces more with a cursor or nothing.       *)
(***************************************************************************)
PlainTails == {EmptyDict} \cup {[has_more |-> TRUE, cursor |-> c] : c \in PageCursors}

PlainLists == SeqsUpTo({RecFull}, MaxPage)

PlainResults(t) ==
    {[kind |-> "raise"], [kind |-> "none"]}
    \cup {[kind |-> "page", page |-> With(tl, ListField(t), l)] :
              tl \in PlainTails, l \in PlainLists}

\* the outstanding transport call returns, the upstream being well-formed
ResponsePlain(s) ==
    /\ pc[s] = "await"
    /\ \E r \in PlainResults(obj_type[s]) :
         LET st == Receive(S(s), r)
         IN  /\ Len(st.requests) <= MaxCalls
             /\ Commit(s, st)

\* the run of a generator whose consumer pulls whenever it can, against
\* the transport results rs, up to the point where it waits for one more
RECURSIVE Replay(_, _)
Replay(st, rs) ==
    CASE st.pc = "created" -> Replay(Start(st), rs)
      [] st.pc = "yield" -> Replay(Resume(st), rs)
      [] st.pc = "await" /\ rs # << >> -> Replay(Receive(st, Head(rs)), Tail(rs))
      [] OTHER -> st

\* sequence a is the beginning of sequence b
IsPrefix(a, b) == Len(a) <= Len(b) /\ SubSeq(b, 1, Len(a)) = a

(***************************************************************************)
(* The advisory of general(): calls of general() around the threshold.     *)
(***************************************************************************)
AdvisoryCounts == (1..MaxCount) \cup {WarnCap, WarnCap + 1}

InitAdvisory ==
    \E n \in AdvisoryCounts, c \in InitCursors :
        InitAs([s \in Sessions |-> IF s = 1 THEN Created("general", "general/full", n, c)
                                              ELSE Unused])

NextAdvisory ==
    \/ Pull(1)
    \/ ResponsePlain(1)
    \/ PullEnded(1)
    \/ Close(1)

SpecAdvisory == InitAdvisory /\ [][NextAdvisory]_vars

(***************************************************************************)
(* Two sessions at once: users() and general(), their steps interleaved.   *)
(***************************************************************************)
InitConc ==
    \E n1 \in {MaxCount}, n2 \in {1, MaxCount} :
        InitAs([s \in Sessions |-> IF s = 1 THEN Created("users", "user/full", n1, Some(0))
                                              ELSE Created("general", "general/full", n2, Some(1))])

\* what the transport answers in the two-session runs: null or a page
ConcResults(t) == {r \in PlainResults(t) : r.kind # "raise"}

ResponseConc(s) ==
    /\ pc[s] = "await"
    /\ \E r \in ConcResults(obj_type[s]) :
         LET st == Receive(S(s), r)
         IN  /\ Len(st.requests) <= MaxCalls
             /\ Commit(s, st)

NextConc ==
    \/ \E s \in Sessions : Pull(s)
    \/ \E s \in Sessions : ResponseConc(s)
    \/ \E s \in Sessions : PullEnded(s)

SpecConc == InitConc /\ [][NextConc]_vars

(***************************************************************************)
(* A consumer that keeps pulling and a transport that always answers,      *)
(* with at least one record of the kind in every page that announces more. *)
(***************************************************************************)
LiveResults(t) ==
    {r \in PlainResults(t) :
        (r.kind = "page" /\ GetDefault(r.page, "has_more", FALSE))
        => Len(KindList(t, r.page)) >= 1}

ResponseLive(s) ==
    /\ pc[s] = "await"
    /\ \E r \in LiveResults(obj_type[s]) :
         LET st == Receive(S(s), r)
         IN  /\ Len(st.requests) <= MaxCalls
             /\ Commit(s, st)

NextLive ==
    \/ Pull(1)
    \/ ResponseLive(1)
    \/ PullEnded(1)

SpecLive ==
    /\ Init
    /\ [][NextLive]_vars
    /\ WF_vars(Pull(1))
    /\ WF_vars(ResponseLive(1))

(***************************************************************************)
(* Notions used by the properties.                                         *)
(***************************************************************************)
\* the transport results session s has received so far that are pages
IsPage(s, i) == responses[s][i].kind = "page"

\* page i of session s reports has_more = true
HasMore(s, i) == IsPage(s, i) /\ GetDefault(responses[s][i].page, "has_more", FALSE)

\* number of records of the requested kind in the page last received
LastPageSize(s) == Len(PageList(S(s)))

\* some transport call of session s returned null
NullSeen(s) == \E i \in 1..Len(responses[s]) : responses[s][i].kind = "none"

\* some transport call of session s raised
RaiseSeen(s) == \E i \in 1..Len(responses[s]) : responses[s][i].kind = "raise"

\* the session is Exhausted or Failed
Terminal(s) == pc[s] \in {"done", "failed"}

(***************************************************************************)
(* C1..C10                                                                 *)
(***************************************************************************)
\* C1: for count > 0 the number of items yielded never exceeds
\* count + (size of the last fetched page - 1), and a transport call is
\* outstanding only while found < count.
C1_YieldBound ==
    \A s \in Sessions :
        count[s] > 0 =>
            /\ Len(yielded[s]) <= count[s] + LastPageSize(s) - 1
            /\ pc[s] = "await" => found[s] < count[s]

\* a session that overshot count by a whole page minus one, on its second page
C1_Witness ==
    /\ count[1] = 2
    /\ Len(requests[1]) = 2
    /\ LastPageSize(1) = 2
    /\ Len(yielded[1]) = 3

\* C2: for count > 0, a session that ended normally after pages that all
\* reported has_more = true has yielded at least count items.
C2_AtLeastCount ==
    \A s \in Sessions :
        ( /\ pc[s] = "done"
          /\ count[s] > 0
          /\ \A i \in 1..Len(responses[s]) : HasMore(s, i) )
        => Len(yielded[s]) >= count[s]

\* a session that needed two pages of has_more = true to reach its count
C2_Witness ==
    /\ pc[1] = "done"
    /\ count[1] = 2
    /\ Len(responses[1]) = 2
    /\ \A i \in 1..2 : HasMore(1, i)
    /\ Len(yielded[1]) >= 2

\* C3: the first request carries the caller's cursor and the request for
\* page N+1 carries the cursor field of the response of page N.
C3_CursorFollowsUpstream ==
    \A s \in Sessions :
        \A i \in 1..Len(requests[s]) :
            IF i = 1
            THEN requests[s][i].cursor = arg_cursor[s]
            ELSE /\ IsPage(s, i - 1)
                 /\ requests[s][i].cursor = Get(responses[s][i - 1].page, "cursor")

\* a second request whose cursor differs from the caller's
C3_Witness ==
    /\ Len(requests[1]) = 2
    /\ arg_cursor[1] = Some(1)
    /\ requests[1][1].cursor = Some(1)
    /\ requests[1][2].cursor = Some(0)

\* C4: when the first page has has_more false or absent, the session makes
\* exactly one transport call.
C4_OneCallWhenNoMore ==
    \A s \in Sessions :
        (Len(responses[s]) >= 1 /\ IsPage(s, 1) /\ ~HasMore(s, 1))
        => Len(requests[s]) = 1

\* a session that ended short of its count after one page without has_more
C4_Witness ==
    /\ pc[1] = "done"
    /\ Len(responses[1]) = 1
    /\ IsPage(1, 1)
    /\ "has_more" \notin DOMAIN responses[1][1].page
    /\ Len(yielded[1]) = 1
    /\ count[1] = 2
    /\ Len(requests[1]) = 1

\* C5: from the step in which a transport call returns null on, the session
\* is failed, has raised InvalidResponseException at that pull, yields
\* nothing more and makes no further transport call.
C5_NullIsFatal ==
    [][\A s \in Sessions :
         NullSeen(s)' =>
            /\ pc'[s] = "failed"
            /\ yielded'[s] = yielded[s]
            /\ requests'[s] = requests[s]
            /\ ~NullSeen(s) => result'[s] = "InvalidResponseException"]_vars

\* a null second page after an item of the first page was yielded
C5_Witness ==
    /\ Len(responses[1]) = 2
    /\ responses[1][2].kind = "none"
    /\ Len(yielded[1]) >= 1
    /\ result[1] = "InvalidResponseException"

\* C6: a transport call that returns an empty mapping makes the session
\* fail with InvalidResponseException.
C6_EmptyPayloadFails ==
    \A s \in Sessions :
        ( /\ Len(responses[s]) >= 1
          /\ IsPage(s, Len(responses[s]))
          /\ responses[s][Len(responses[s])].page = EmptyDict )
        => pc[s] = "failed"

\* C7: a page that is not empty but lacks the list field of the requested
\* kind makes the session fail with InvalidResponseException.
C7_MissingListFails ==
    \A s \in Sessions :
        ( /\ obj_type[s] \in {"user/full", "general/full", "general/preview"}
          /\ Len(responses[s]) >= 1
          /\ IsPage(s, Len(responses[s]))
          /\ responses[s][Len(responses[s])].page # EmptyDict
          /\ ListField(obj_type[s]) \notin DOMAIN responses[s][Len(responses[s])].page )
        => pc[s] = "failed"

\* C8: Exhausted and Failed are terminal: no step changes the requests or
\* the yielded items of such a session or takes it out of that state; and
\* a session is in one of them once a transport call failed, and once a
\* page with has_more false or absent has been emitted.
C8_Terminal ==
    /\ [](\A s \in Sessions :
            /\ (NullSeen(s) \/ RaiseSeen(s)) => pc[s] = "failed"
            /\ \A i \in 1..Len(responses[s]) :
                  (IsPage(s, i) /\ ~HasMore(s, i)) =>
                      /\ i = Len(requests[s])
                      /\ pc[s] \in {"yield", "closed", "done", "failed"})
    /\ [][\A s \in Sessions :
            Terminal(s) =>
               /\ requests'[s] = requests[s]
               /\ yielded'[s] = yielded[s]
               /\ pc'[s] = pc[s]]_vars

\* a failed session that the consumer pulled again
C8_Witness ==
    /\ pc[1] = "failed"
    /\ result[1] = "StopAsyncIteration"
    /\ Len(yielded[1]) >= 1

\* C9: at most one transport call is outstanding, one is outstanding only
\* while the consumer waits for a pull to be served, and a request is
\* issued only in a step that serves a pull.
C9_PullDriven ==
    /\ [](\A s \in Sessions :
            /\ Cardinality(inflight[s]) <= 1
            /\ inflight[s] # {} <=> pc[s] = "await"
            /\ inflight[s] # {} => result[s] = "pending")
    /\ [][\A s \in Sessions :
            Len(requests'[s]) > Len(requests[s]) =>
               /\ pc[s] \in {"created", "yield", "await"}
               /\ result'[s] = "pending"
               /\ Len(requests'[s]) = Len(requests[s]) + 1]_vars

\* a consumer that gave up mid-page, with more announced by the upstream
C9_Witness ==
    /\ pc[1] = "closed"
    /\ Len(yielded[1]) = 1
    /\ LastPageSize(1) = 2
    /\ GetDefault(resp[1], "has_more", FALSE)
    /\ count[1] = 2
    /\ inflight[1] = {}

\* C10: from the step in which the transport raises on, the session is
\* failed, the failure has reached the consumer at that pull, no request
\* follows and the yielded items are unchanged.
C10_TransportErrorPassesThrough ==
    [][\A s \in Sessions :
         RaiseSeen(s)' =>
            /\ pc'[s] = "failed"
            /\ yielded'[s] = yielded[s]
            /\ requests'[s] = requests[s]
            /\ Len(requests'[s]) = Len(responses'[s])
            /\ ~RaiseSeen(s) => result'[s] = "TransportError"]_vars

\* the transport raised on the second page, after an item was yielded
C10_Witness ==
    /\ Len(responses[1]) = 2
    /\ responses[1][2].kind = "raise"
    /\ Len(yielded[1]) >= 1
    /\ result[1] = "TransportError"

(***************************************************************************)
(* C11..C20                                                                *)
(***************************************************************************)
\* C11: decoding a record of user_list never raises: a session fails only
\* when a transport call raised or returned null.
C11_DecodeNeverRaises ==
    \A s \in Sessions :
        pc[s] = "failed" => (NullSeen(s) \/ RaiseSeen(s))

\* C14: in the step that ends the emission of a page, the session fetches
\* again when found < count and the page's has_more is true, and otherwise
\* ends without another transport call.
C14_AfterPage ==
    [][\A s \in Sessions :
         (pc[s] \in {"yield", "await"} /\ pc'[s] \in {"done", "await"}) =>
            IF found'[s] < count[s] /\ GetDefault(resp'[s], "has_more", FALSE)
            THEN /\ pc'[s] = "await"
                 /\ Len(requests'[s]) = Len(requests[s]) + 1
            ELSE /\ pc'[s] = "done"
                 /\ requests'[s] = requests[s]]_vars

\* a session that stopped at its count though the page announced more
C14_Witness ==
    /\ pc[1] = "done"
    /\ Len(requests[1]) = 1
    /\ GetDefault(resp[1], "has_more", FALSE)
    /\ found[1] = 2
    /\ count[1] = 1

\* C16: the cursor of every request is an integer >= 0.
C16_CursorIsNat ==
    \A s \in Sessions :
        \A i \in 1..Len(requests[s]) :
            /\ requests[s][i].cursor # None
            /\ requests[s][i].cursor.val >= 0

\* C17: the cursors of successive requests that carry one never decrease.
C17_CursorMonotonic ==
    \A s \in Sessions :
        \A i \in 1..(Len(requests[s]) - 1) :
            (requests[s][i].cursor # None /\ requests[s][i + 1].cursor # None)
            => requests[s][i].cursor.val <= requests[s][i + 1].cursor.val

\* C18: found changes only by the increment that follows a yield, and it
\* equals the number of items yielded whenever the session is not suspended
\* at a yield, where the item just handed over is not counted yet.
C18_FoundCountsYields ==
    /\ [](\A s \in Sessions :
            /\ pc[s] \in {"created", "await", "done"} => found[s] = Len(yielded[s])
            /\ pc[s] = "yield" => found[s] + 1 = Len(yielded[s]))
    /\ [][\A s \in Sessions :
            found'[s] # found[s] =>
               /\ pc[s] = "yield"
               /\ found'[s] = found[s] + 1]_vars

\* a loop guard that passed after the one item of the first page was counted
C18_Witness ==
    /\ pc[1] = "await"
    /\ Len(requests[1]) = 2
    /\ found[1] = 1
    /\ Len(yielded[1]) = 1
    /\ obj_type[1] = "general/preview"

\* C15: a transport call is outstanding only when every record of the
\* page before it has been yielded and pulled, and whatever has been
\* yielded includes all the records of the pages before the last one.
C15_Sequential ==
    \A s \in Sessions :
        /\ inflight[s] # {} =>
              /\ it[s] = LastPageSize(s)
              /\ found[s] = Len(yielded[s])
              /\ Len(yielded[s]) = TotalSize(obj_type[s], responses[s])
        /\ Len(responses[s]) >= 1 =>
              /\ Len(yielded[s]) >= TotalSize(obj_type[s], Earlier(s))
              /\ Len(yielded[s]) <= TotalSize(obj_type[s], responses[s])

\* the second page was asked for after the only item of the first, and its
\* two items followed
C15_Witness ==
    /\ pc[1] = "done"
    /\ Len(responses[1]) = 2
    /\ TotalSize(obj_type[1], Earlier(1)) = 1
    /\ Len(yielded[1]) = 3

\* C20: a session that ended without error has yielded one item per record
\* of every page it fetched, in the order of the pages and of their lists.
C20_YieldsAllInOrder ==
    \A s \in Sessions :
        pc[s] = "done" => yielded[s] = AllItems(obj_type[s], responses[s])

\* two pages of keyword suggestions, the second with two different records
C20_Witness ==
    /\ pc[1] = "done"
    /\ obj_type[1] = "general/preview"
    /\ Len(responses[1]) = 2
    /\ Len(yielded[1]) = 3
    /\ yielded[1][2] # yielded[1][3]

\* the run session s would make alone, from its arguments, against the
\* transport results it has received
Alone(s) ==
    Replay(Created(entry[s], obj_type[s], count[s], arg_cursor[s]), responses[s])

\* the step does something to session s
Moved(s) ==
    <<pc[s], result[s], requests[s], responses[s], yielded[s]>>'
        # <<pc[s], result[s], requests[s], responses[s], yielded[s]>>

\* C12: with two sessions interleaved, a step leaves every session it does
\* not move as it was, cursor and found included, and the requests and the
\* items of each session are those of its run alone against the same
\* transport results.
C12_SessionsIndependent ==
    /\ [](\A s \in Sessions :
            /\ IsPrefix(requests[s], Alone(s).requests)
            /\ IsPrefix(yielded[s], Alone(s).yielded))
    /\ [][\A s \in Sessions : ~Moved(s) => S(s)' = S(s)]_vars

\* both sessions are on their second page, each with the cursor of its own
\* first page
C12_Witness ==
    /\ Len(requests[1]) = 2
    /\ Len(requests[2]) = 2
    /\ requests[1][2].cursor = Some(1)
    /\ requests[2][2].cursor = Some(0)
    /\ Len(yielded[1]) = 1
    /\ Len(yielded[2]) = 1

\* C13: a general() session whose body has started has logged the advisory
\* once when count > 9 and never otherwise, and its requests and items are
\* those of search_type with general/full and the same arguments against
\* the same transport results.
C13_AdvisoryOnly ==
    \A s \in Sessions :
        entry[s] = "general" =>
            LET plain == Replay(Created("search_type", "general/full",
                                        count[s], arg_cursor[s]), responses[s])
            IN  /\ log[s] = IF count[s] > WarnCap /\ Len(requests[s]) >= 1
                            THEN 1 ELSE 0
                /\ IsPrefix(requests[s], plain.requests)
                /\ IsPrefix(yielded[s], plain.yielded)
                /\ pc[s] \in {"done", "failed"} =>
                      /\ requests[s] = plain.requests
                      /\ yielded[s] = plain.yielded

\* general() with count 10 went through two pages and logged once
C13_Witness ==
    /\ entry[1] = "general"
    /\ count[1] = WarnCap + 1
    /\ log[1] = 1
    /\ pc[1] = "done"
    /\ Len(responses[1]) = 2
    /\ Len(yielded[1]) >= 2

\* C19: when every page that announces more has a record of the kind, the
\* session makes at most count transport calls, and with a consumer that
\* keeps pulling and a transport that answers it ends, Exhausted or Failed.
C19_Terminates ==
    /\ [](\A s \in Sessions : Len(requests[s]) <= count[s])
    /\ <>(pc[1] \in {"done", "failed"})

\* a session that used count calls: one item a page, more announced each time
C19_Witness ==
    /\ pc[1] = "done"
    /\ count[1] = 2
    /\ Len(requests[1]) = 2
    /\ Len(responses[1]) = 2
    /\ HasMore(1, 1)
    /\ HasMore(1, 2)
    /\ Len(yielded[1]) = 2

====
